---- MODULE Spec2Model ----
(***************************************************************************)
(* Model of scripts/generate_docs.py: RustDocExtractor walks a source tree *)
(* and accumulates StructInfo / FunctionInfo records, then                 *)
(* DocumentationGenerator renders four markdown artifacts from them.       *)
(*                                                                         *)
(* Python strings are TLA+ strings; a rendered file is, as in the code, a  *)
(* list of string pieces (the content list handed to _write_file).    The  *)
(* regular expressions of the extractor are not re-implemented: an input   *)
(* file is given as the list of matches the patterns find in it (the named *)
(* groups of each match), and everything the code does with a match is     *)
(* modelled on those group texts.                                          *)
(***************************************************************************)
EXTENDS Integers, Sequences, FiniteSets, TLC

VARIABLES
    tree,         \* the *.rs files under source_dir
    pending,      \* files of the tree that rglob has not yielded yet
    readable,     \* files whose open()/read() succeeds
    structs,      \* RustDocExtractor.structs
    functions,    \* RustDocExtractor.functions
    warnings,     \* the "Warning: Failed to process ..." lines printed, by path
    files,        \* the output directory: file name -> list of content pieces
    pc,           \* position of main()
    text,         \* input text of the pure text functions
    out1,         \* result of applying the text function once
    out2          \* result of applying it to its own result

vars == <<tree, pending, readable, structs, functions, warnings, files, pc, text, out1, out2>>

(***************************************************************************)
(* Bounds                                                                  *)
(***************************************************************************)
MaxStructs == 2
MaxFunctions == 2
MaxDocTokens == 4
MaxParamTokens == 4

(***************************************************************************)
(* Python str primitives                                                   *)
(***************************************************************************)
IsSpace(c) == c \in {" ", "\n", "\t"}

RECURSIVE LStrip(_)
LStrip(s) ==
    IF Len(s) = 0 THEN ""
    ELSE IF IsSpace(SubSeq(s, 1, 1)) THEN LStrip(SubSeq(s, 2, Len(s)))
    ELSE s

RECURSIVE RStrip(_)
RStrip(s) ==
    IF Len(s) = 0 THEN ""
    ELSE IF IsSpace(SubSeq(s, Len(s), Len(s))) THEN RStrip(SubSeq(s, 1, Len(s) - 1))
    ELSE s

\* str.strip()
Strip(s) == RStrip(LStrip(s))

\* str.rstrip(',')
RECURSIVE RStripComma(_)
RStripComma(s) ==
    IF Len(s) = 0 THEN ""
    ELSE IF SubSeq(s, Len(s), Len(s)) = "," THEN RStripComma(SubSeq(s, 1, Len(s) - 1))
    ELSE s

\* str.startswith(p)
StartsWith(s, p) == Len(s) >= Len(p) /\ SubSeq(s, 1, Len(p)) = p

\* `sub in s`
Contains(s, sub) ==
    \E i \in 1..(Len(s) - Len(sub) + 1) : SubSeq(s, i, i + Len(sub) - 1) = sub

\* s[n:]
DropPrefix(s, n) == SubSeq(s, n + 1, Len(s))

\* index of the first occurrence of the one-character string c in s, 0 if none
RECURSIVE FindFrom(_, _, _)
FindFrom(s, c, i) ==
    IF i > Len(s) THEN 0
    ELSE IF SubSeq(s, i, i) = c THEN i
    ELSE FindFrom(s, c, i + 1)

Find(s, c) == FindFrom(s, c, 1)

\* str.split(c) for a one-character separator: never empty, "" gives <<"">>
RECURSIVE Split(_, _)
Split(s, c) ==
    LET i == Find(s, c) IN
    IF i = 0 THEN <<s>>
    ELSE <<SubSeq(s, 1, i - 1)>> \o Split(SubSeq(s, i + 1, Len(s)), c)

\* sep.join(parts)
RECURSIVE Join(_, _)
Join(parts, sep) ==
    IF Len(parts) = 0 THEN ""
    ELSE IF Len(parts) = 1 THEN parts[1]
    ELSE parts[1] \o sep \o Join(Tail(parts), sep)

\* str.lower() on the letters that occur in the model's names
LowerChar(c) ==
    CASE c = "A" -> "a" [] c = "B" -> "b" [] c = "C" -> "c" [] c = "D" -> "d"
      [] c = "I" -> "i" [] c = "O" -> "o" [] c = "P" -> "p" [] c = "R" -> "r"
      [] c = "S" -> "s" [] c = "U" -> "u" [] OTHER -> c

RECURSIVE Lower(_)
Lower(s) ==
    IF Len(s) = 0 THEN ""
    ELSE LowerChar(SubSeq(s, 1, 1)) \o Lower(SubSeq(s, 2, Len(s)))


(***************************************************************************)
(* The source tree.  A file is the list of matches struct_pattern finds in *)
(* it and the list of matches func_pattern finds in it; a match is the     *)
(* record of its named groups.  An optional group that did not take part   *)
(* (Python None) is <<>>, one that did is <<text>>.                        *)
(***************************************************************************)
Files == {"b.rs", "a.rs"}

StructMatches ==
    { [doc |-> "/// Holds reserve state\n#[account(zero_copy)]\n", attrs |-> <<>>,
       name |-> "Reserve", fields |-> <<[doc |-> "", name |-> "pad", type |-> "u8"]>>],
      [doc |-> "", attrs |-> <<"derive(Debug)", " account(zero_copy) ">>,
       name |-> "ConfigData", fields |-> <<>>],
      [doc |-> "", attrs |-> <<"account">>,
       name |-> "Snapshot", fields |-> <<>>],
      [doc |-> "", attrs |-> <<>>,
       name |-> "ConfigData", fields |-> <<>>],
      [doc |-> "", attrs |-> <<>>,
       name |-> "CapInfo", fields |-> <<[doc |-> "/// Limit\n", name |-> "cap", type |-> "u64"]>>],
      [doc |-> "", attrs |-> <<"derive(Debug)">>,
       name |-> "Reserve", fields |-> <<>>] }

FuncMatches ==
    { [doc |-> "/// Refreshes a reserve\n", visibility |-> <<"pub ">>, name |-> "refresh",
       params |-> "ctx: Context", return |-> <<"ProgramResult ">>],
      [doc |-> "", visibility |-> <<"pub ">>, name |-> "init",
       params |-> "", return |-> <<>>],
      [doc |-> "", visibility |-> <<>>, name |-> "helper",
       params |-> "&mut self, n: u64", return |-> <<>>] }

RECURSIVE SeqsUpTo(_, _)
SeqsUpTo(S, n) ==
    IF n = 0 THEN {<<>>}
    ELSE LET shorter == SeqsUpTo(S, n - 1) IN
         shorter \cup {Append(q, x) : q \in shorter, x \in S}

\* struct_pattern is compiled with DOTALL, so the `.*` of its doc and attrs
\* groups runs over line ends, up to the last place from which the rest of
\* the pattern still matches: a match that starts with a doc comment reaches
\* the last struct of the file, one that starts with an attribute the last
\* struct that carries attributes.  The matches of one file therefore hold a
\* doc comment in the last match only, and attributes in one match at most;
\* the attribute lines of a struct that has a doc comment are part of the doc
\* group, and its attrs group is empty.
OneFileStructMatches(matches) ==
    /\ \A i \in 1..Len(matches) :
          matches[i].doc # "" => i = Len(matches) /\ matches[i].attrs = <<>>
    /\ Cardinality({i \in 1..Len(matches) :
                       matches[i].attrs # <<>> \/ Contains(matches[i].doc, "#[")}) <= 1

FileContents ==
    [structs : {ms \in SeqsUpTo(StructMatches, MaxStructs) : OneFileStructMatches(ms)},
     functions : SeqsUpTo(FuncMatches, MaxFunctions)]

(***************************************************************************)
(* RustDocExtractor                                                        *)
(***************************************************************************)
RECURSIVE clean_lines(_)
clean_lines(lines) ==
    IF Len(lines) = 0 THEN <<>>
    ELSE LET line == Strip(Head(lines)) IN
         (IF StartsWith(line, "///") THEN <<Strip(DropPrefix(line, 3))>>
          ELSE IF StartsWith(line, "//!") THEN <<Strip(DropPrefix(line, 3))>>
          ELSE <<>>)
         \o clean_lines(Tail(lines))

RECURSIVE clean_lines_keep(_)
clean_lines_keep(lines) ==
    IF Len(lines) = 0 THEN <<>>
    ELSE LET line == Strip(Head(lines)) IN
         (IF StartsWith(line, "///") THEN <<Strip(DropPrefix(line, 3))>>
          ELSE IF StartsWith(line, "//!") THEN <<Strip(DropPrefix(line, 3))>>
          ELSE <<line>>)
         \o clean_lines_keep(Tail(lines))

\* a cleaner that keeps the lines carrying no leader
clean_doc_comment_keep(doc_text) ==
    IF doc_text = "" THEN ""
    ELSE Join(clean_lines_keep(Split(Strip(doc_text), "\n")), "\n")

clean_doc_comment(doc_text) ==
    IF doc_text = "" THEN ""
    ELSE Join(clean_lines(Split(Strip(doc_text), "\n")), "\n")

extract_fields(field_matches) ==
    [i \in 1..Len(field_matches) |->
        <<field_matches[i].name,
          RStripComma(Strip(field_matches[i].type)),
          clean_doc_comment(field_matches[i].doc)>>]

\* the body of the loop over param_parts
parameter_of(part) ==
    LET param == Strip(part)
        colon == Find(param, ":")
    IN  IF colon = 0 THEN <<>>
        ELSE LET name0 == Strip(SubSeq(param, 1, colon - 1))
                 param_type == Strip(SubSeq(param, colon + 1, Len(param)))
                 name1 == IF StartsWith(name0, "mut ") THEN DropPrefix(name0, 4) ELSE name0
                 name2 == IF StartsWith(name1, "&") THEN DropPrefix(name1, 1) ELSE name1
             IN  <<<<name2, param_type>>>>

RECURSIVE parameters_of(_)
parameters_of(param_parts) ==
    IF Len(param_parts) = 0 THEN <<>>
    ELSE parameter_of(Head(param_parts)) \o parameters_of(Tail(param_parts))

extract_parameters(params_text) ==
    IF Strip(params_text) = "" THEN <<>>
    ELSE parameters_of(Split(params_text, ","))

RECURSIVE StripAll(_)
StripAll(strs) ==
    IF Len(strs) = 0 THEN <<>> ELSE <<Strip(Head(strs))>> \o StripAll(Tail(strs))

\* _find_size_calculation on a file without impl blocks: None
find_size_calculation == <<>>

\* the StructInfo built from one struct_pattern match
StructInfo(match, file_path, line_number) ==
    [name |-> match.name,
     doc_comment |-> clean_doc_comment(match.doc),
     fields |-> extract_fields(match.fields),
     attributes |-> StripAll(match.attrs),
     file_path |-> file_path,
     line_number |-> line_number,
     size_calculation |-> find_size_calculation]

\* the FunctionInfo built from one func_pattern match
FunctionInfo(match, file_path, line_number) ==
    LET return_type == IF match.return = <<>> THEN "()" ELSE match.return[1] IN
    [name |-> match.name,
     doc_comment |-> clean_doc_comment(match.doc),
     signature |-> "fn " \o match.name \o "(" \o match.params \o ") -> " \o Strip(return_type),
     file_path |-> file_path,
     line_number |-> line_number,
     is_public |-> match.visibility # <<>>,
     parameters |-> extract_parameters(match.params),
     return_type |-> Strip(return_type)]

\* The text of a file: its declarations one after the other, structs first.
\* A struct is its doc comment lines, one line per attribute, the line
\* `pub struct Name {`, per field its doc comment lines and one line
\* `pub name: type,`, and the line `}`.  A function is its doc comment
\* lines and one line for the declaration.  No impl block follows, so
\* _find_size_calculation finds nothing.
CountNewlines(s) == Len(Split(s, "\n")) - 1

RECURSIVE fields_height(_)
fields_height(field_matches) ==
    IF Len(field_matches) = 0 THEN 0
    ELSE CountNewlines(Head(field_matches).doc) + 1 + fields_height(Tail(field_matches))

struct_height(match) ==
    CountNewlines(match.doc) + Len(match.attrs) + 2 + fields_height(match.fields)

function_height(match) == CountNewlines(match.doc) + 1

RECURSIVE structs_height(_)
structs_height(matches) ==
    IF Len(matches) = 0 THEN 0
    ELSE struct_height(Head(matches)) + structs_height(Tail(matches))

RECURSIVE functions_height(_)
functions_height(matches) ==
    IF Len(matches) = 0 THEN 0
    ELSE function_height(Head(matches)) + functions_height(Tail(matches))

\* content[:match.start()].count('\n') + 1 for a declaration whose first
\* line is `top`: a match with a doc comment starts at its first line; one
\* without starts with the \s* of the pattern, at the end of the line before
match_line(top, doc) == IF doc # "" \/ top = 1 THEN top ELSE top - 1

extract_structs(content, file_path) ==
    [i \in 1..Len(content.structs) |->
        StructInfo(content.structs[i], file_path,
                   match_line(1 + structs_height(SubSeq(content.structs, 1, i - 1)),
                              content.structs[i].doc))]

extract_functions(content, file_path) ==
    [i \in 1..Len(content.functions) |->
        FunctionInfo(content.functions[i], file_path,
                     match_line(1 + structs_height(content.structs)
                                  + functions_height(SubSeq(content.functions, 1, i - 1)),
                                content.functions[i].doc))]

\* A variant without the try/except: the read error ends the run.
extract_from_file_raise(file_path) ==
    /\ pc = "extract"
    /\ file_path \in pending
    /\ pending' = pending \ {file_path}
    /\ IF file_path \in readable
       THEN \E content \in FileContents :
               /\ Len(structs) + Len(content.structs) <= MaxStructs
               /\ Len(functions) + Len(content.functions) <= MaxFunctions
               /\ structs' = structs \o extract_structs(content, file_path)
               /\ functions' = functions \o extract_functions(content, file_path)
               /\ UNCHANGED <<warnings, pc>>
       ELSE /\ pc' = "raised"
            /\ UNCHANGED <<structs, functions, warnings>>
    /\ UNCHANGED <<tree, readable, files, text, out1, out2>>

\* One iteration of extract_all: rglob yields file_path, _extract_from_file runs.
extract_from_file(file_path) ==
    /\ pc = "extract"
    /\ file_path \in pending
    /\ pending' = pending \ {file_path}
    /\ IF file_path \in readable
       THEN \E content \in FileContents :
               /\ Len(structs) + Len(content.structs) <= MaxStructs
               /\ Len(functions) + Len(content.functions) <= MaxFunctions
               /\ structs' = structs \o extract_structs(content, file_path)
               /\ functions' = functions \o extract_functions(content, file_path)
               /\ UNCHANGED warnings
       ELSE /\ warnings' = Append(warnings, file_path)
            /\ UNCHANGED <<structs, functions>>
    /\ UNCHANGED <<tree, readable, files, pc, text, out1, out2>>


(***************************************************************************)
(* DocumentationGenerator                                                  *)
(***************************************************************************)
\* the backquote, which a TLA+ string literal cannot hold
BQ == "'"

\* _write_file: the file's text is the concatenation of the pieces
write_file(filename, content) ==
    files' = [f \in DOMAIN files \cup {filename} |->
                 IF f = filename THEN content ELSE files[f]]

RECURSIVE field_lines(_)
field_lines(fields) ==
    IF Len(fields) = 0 THEN <<>>
    ELSE LET fld == Head(fields) IN
         <<"- " \o BQ \o fld[1] \o ": " \o fld[2] \o BQ>>
         \o (IF fld[3] # "" THEN <<" - " \o fld[3]>> ELSE <<>>)
         \o <<"\n">>
         \o field_lines(Tail(fields))

location_line(rec) ==
    "**Location**: " \o BQ \o rec.file_path \o ":" \o ToString(rec.line_number) \o BQ \o "\n"

generate_struct_section(struct) ==
    <<"### " \o struct.name \o "\n", location_line(struct)>>
    \o (IF struct.attributes # <<>>
        THEN <<"**Attributes**: " \o BQ \o Join(struct.attributes, ", ") \o BQ \o "\n">>
        ELSE <<>>)
    \o (IF struct.doc_comment # "" THEN <<struct.doc_comment, "\n">> ELSE <<>>)
    \o (IF struct.size_calculation # <<>> /\ struct.size_calculation[1] # ""
        THEN <<"**Size Calculation**:\n", BQ \o BQ \o BQ \o "rust\n", struct.size_calculation[1], "\n" \o BQ \o BQ \o BQ \o "\n">>
        ELSE <<>>)
    \o (IF struct.fields # <<>>
        THEN <<"**Fields**:\n">> \o field_lines(struct.fields)
        ELSE <<>>)
    \o <<"\n">>

RECURSIVE parameter_lines(_)
parameter_lines(parameters) ==
    IF Len(parameters) = 0 THEN <<>>
    ELSE <<"- " \o BQ \o Head(parameters)[1] \o ": " \o Head(parameters)[2] \o BQ \o "\n">>
         \o parameter_lines(Tail(parameters))

generate_function_section(func) ==
    <<"### " \o func.name \o "\n", location_line(func),
      "**Signature**: " \o BQ \o func.signature \o BQ \o "\n">>
    \o (IF func.doc_comment # "" THEN <<func.doc_comment, "\n">> ELSE <<>>)
    \o (IF func.parameters # <<>>
        THEN <<"**Parameters**:\n">> \o parameter_lines(func.parameters)
        ELSE <<>>)
    \o <<"**Returns**: " \o BQ \o func.return_type \o BQ \o "\n\n">>

RECURSIVE struct_sections(_)
struct_sections(ss) ==
    IF Len(ss) = 0 THEN <<>>
    ELSE generate_struct_section(Head(ss)) \o struct_sections(Tail(ss))

RECURSIVE function_sections(_)
function_sections(fs) ==
    IF Len(fs) = 0 THEN <<>>
    ELSE generate_function_section(Head(fs)) \o function_sections(Tail(fs))

is_zero_copy(struct) == Contains(Join(struct.attributes, " "), "account(zero_copy)")

zero_copy_structs(ss) == SelectSeq(ss, is_zero_copy)

\* A variant without the early return on an empty list.
generate_zero_copy_reference_always ==
    /\ pc = "extract"
    /\ pending = {}
    /\ LET zc == zero_copy_structs(structs) IN
       write_file("zero-copy-reference.md",
                  <<"# Zero-Copy Structures Reference\n",
                    "This document provides detailed reference information for all zero-copy structures ",
                    "in the Solana Borrow-Lending Protocol.\n",
                    "## Overview\n",
                    "Total zero-copy structures: **" \o ToString(Len(zc)) \o "**\n">>
                  \o struct_sections(zc))
    /\ pc' = "api_structures"
    /\ UNCHANGED <<tree, pending, readable, structs, functions, warnings, text, out1, out2>>

\* extract_all has returned; generate_all starts with the zero-copy reference.
generate_zero_copy_reference ==
    /\ pc = "extract"
    /\ pending = {}
    /\ LET zc == zero_copy_structs(structs) IN
       IF zc = <<>>
       THEN UNCHANGED files
       ELSE write_file("zero-copy-reference.md",
                       <<"# Zero-Copy Structures Reference\n",
                         "This document provides detailed reference information for all zero-copy structures ",
                         "in the Solana Borrow-Lending Protocol.\n",
                         "## Overview\n",
                         "Total zero-copy structures: **" \o ToString(Len(zc)) \o "**\n">>
                       \o struct_sections(zc))
    /\ pc' = "api_structures"
    /\ UNCHANGED <<tree, pending, readable, structs, functions, warnings, text, out1, out2>>

\* the keys of the `categories` dict, in the order the literal inserts them
CategoryOrder_as_classified ==
    <<"Account Structures", "Configuration Structures", "Data Structures", "Other Structures">>

CategoryOrder ==
    <<"Account Structures", "Data Structures", "Configuration Structures", "Other Structures">>

DataKeywords == <<"data", "info", "cap", "snapshot">>

has_data_keyword(name) ==
    \E k \in 1..Len(DataKeywords) : Contains(Lower(name), DataKeywords[k])

\* the chain with the name tests ahead of the attribute test
classify_name_first(categories, struct) ==
    IF Contains(Lower(struct.name), "config")
    THEN [categories EXCEPT !["Configuration Structures"] = Append(@, struct)]
    ELSE IF has_data_keyword(struct.name)
    THEN [categories EXCEPT !["Data Structures"] = Append(@, struct)]
    ELSE IF Contains(Join(struct.attributes, " "), "account")
    THEN [categories EXCEPT !["Account Structures"] = Append(@, struct)]
    ELSE [categories EXCEPT !["Other Structures"] = Append(@, struct)]

\* the chain written with independent ifs and no final else
classify_independent(categories, struct) ==
    LET c1 == IF Contains(Join(struct.attributes, " "), "account")
              THEN [categories EXCEPT !["Account Structures"] = Append(@, struct)]
              ELSE categories
        c2 == IF Contains(Lower(struct.name), "config")
              THEN [c1 EXCEPT !["Configuration Structures"] = Append(@, struct)]
              ELSE c1
        c3 == IF has_data_keyword(struct.name)
              THEN [c2 EXCEPT !["Data Structures"] = Append(@, struct)]
              ELSE c2
    IN  c3

\* the body of the loop over self.extractor.structs
classify(categories, struct) ==
    IF Contains(Join(struct.attributes, " "), "account")
    THEN [categories EXCEPT !["Account Structures"] = Append(@, struct)]
    ELSE IF Contains(Lower(struct.name), "config")
    THEN [categories EXCEPT !["Configuration Structures"] = Append(@, struct)]
    ELSE IF has_data_keyword(struct.name)
    THEN [categories EXCEPT !["Data Structures"] = Append(@, struct)]
    ELSE [categories EXCEPT !["Other Structures"] = Append(@, struct)]

RECURSIVE categorize(_, _)
categorize(categories, ss) ==
    IF Len(ss) = 0 THEN categories
    ELSE categorize(classify(categories, Head(ss)), Tail(ss))

RECURSIVE category_blocks(_, _)
category_blocks(categories, order) ==
    IF Len(order) = 0 THEN <<>>
    ELSE (IF categories[Head(order)] # <<>>
          THEN <<"## " \o Head(order) \o "\n">> \o struct_sections(categories[Head(order)])
          ELSE <<>>)
         \o category_blocks(categories, Tail(order))

generate_api_structures ==
    /\ pc = "api_structures"
    /\ LET empty == [c \in {CategoryOrder[k] : k \in 1..Len(CategoryOrder)} |-> <<>>]
           categories == categorize(empty, structs)
       IN  write_file("api-structures.md",
                      <<"# API Structures Reference\n",
                        "Comprehensive reference for all data structures used in the protocol.\n">>
                      \o category_blocks(categories, CategoryOrder))
    /\ pc' = "function_reference"
    /\ UNCHANGED <<tree, pending, readable, structs, functions, warnings, text, out1, out2>>

is_public(func) == func.is_public

all_functions(fs) == fs

public_functions(fs) == SelectSeq(fs, is_public)

\* the keys of by_file, in insertion order
RECURSIVE by_file_keys(_)
by_file_keys(fs) ==
    IF Len(fs) = 0 THEN <<>>
    ELSE LET rest == by_file_keys(SubSeq(fs, 1, Len(fs) - 1))
             key == fs[Len(fs)].file_path
         IN  IF \E k \in 1..Len(rest) : rest[k] = key THEN rest ELSE Append(rest, key)

\* by_file[file_key]
by_file(fs, file_key) ==
    LET InFile(func) == func.file_path = file_key IN SelectSeq(fs, InFile)

\* code point of a character of a path
Ord(c) ==
    CASE c = "." -> 46 [] c = "/" -> 47 [] c = "a" -> 97 [] c = "b" -> 98
      [] c = "r" -> 114 [] c = "s" -> 115

\* Python's a < b on str
RECURSIVE StrLess(_, _)
StrLess(a, b) ==
    IF Len(b) = 0 THEN FALSE
    ELSE IF Len(a) = 0 THEN TRUE
    ELSE IF SubSeq(a, 1, 1) = SubSeq(b, 1, 1)
         THEN StrLess(SubSeq(a, 2, Len(a)), SubSeq(b, 2, Len(b)))
         ELSE Ord(SubSeq(a, 1, 1)) < Ord(SubSeq(b, 1, 1))

RECURSIVE insert_sorted(_, _)
insert_sorted(keys, key) ==
    IF Len(keys) = 0 THEN <<key>>
    ELSE IF StrLess(key, Head(keys)) THEN <<key>> \o keys
    ELSE <<Head(keys)>> \o insert_sorted(Tail(keys), key)

unsorted(keys) == keys

\* sorted(by_file.items()): the keys are distinct, so the pairs sort by key
RECURSIVE sorted(_)
sorted(keys) ==
    IF Len(keys) = 0 THEN <<>>
    ELSE insert_sorted(sorted(Tail(keys)), Head(keys))

RECURSIVE file_blocks(_, _)
file_blocks(fs, keys) ==
    IF Len(keys) = 0 THEN <<>>
    ELSE <<"## " \o Head(keys) \o "\n">>
         \o function_sections(by_file(fs, Head(keys)))
         \o file_blocks(fs, Tail(keys))

generate_function_reference ==
    /\ pc = "function_reference"
    /\ LET pf == public_functions(functions) IN
       write_file("function-reference.md",
                  <<"# Function Reference\n",
                    "Reference documentation for all public functions in the protocol.\n",
                    "Total public functions: **" \o ToString(Len(pf)) \o "**\n">>
                  \o file_blocks(pf, sorted(by_file_keys(pf))))
    /\ pc' = "index"
    /\ UNCHANGED <<tree, pending, readable, structs, functions, warnings, text, out1, out2>>

\* _get_timestamp: the clock is outside the model, its reading is fixed
get_timestamp == "2026-01-01 00:00:00 UTC"

\* generate_index, then main prints "Documentation generation complete!"
generate_index ==
    /\ pc = "index"
    /\ write_file("auto-generated-index.md",
                  <<"# Auto-Generated Documentation Index\n",
                    "This index is automatically generated from the Rust source code.\n",
                    "Last updated: " \o get_timestamp \o "\n",
                    "## Statistics\n",
                    "- **Structures documented**: " \o ToString(Len(structs)) \o "\n",
                    "- **Functions documented**: " \o ToString(Len(functions)) \o "\n",
                    "- **Zero-copy structures**: "
                        \o ToString(Len(zero_copy_structs(structs))) \o "\n",
                    "## Generated Files\n",
                    "- [Zero-Copy Structures Reference](zero-copy-reference.md)\n",
                    "- [API Structures Reference](api-structures.md)\n",
                    "- [Function Reference](function-reference.md)\n",
                    "## Manual Documentation\n",
                    "- [Zero-Copy Architecture Guide](zero-copy-architecture.md)\n",
                    "- [Performance Optimization Guide](performance-optimization.md)\n",
                    "- [API Reference](api-reference.md)\n",
                    "- [User Tutorials](user-tutorials.md)\n",
                    "- [Developer Guide](developer-guide.md)\n">>)
    /\ pc' = "done"
    /\ UNCHANGED <<tree, pending, readable, structs, functions, warnings, text, out1, out2>>

(***************************************************************************)
(* main(): extract_all over the tree, then generate_all                    *)
(***************************************************************************)
Init ==
    /\ tree \in SUBSET Files
    /\ pending = tree
    /\ readable \in SUBSET tree
    /\ structs = <<>>
    /\ functions = <<>>
    /\ warnings = <<>>
    /\ files = <<>>
    /\ pc = "extract"
    /\ text = ""
    /\ out1 = ""
    /\ out2 = ""

Next ==
    \/ \E file_path \in Files : extract_from_file(file_path)
    \/ generate_zero_copy_reference
    \/ generate_api_structures
    \/ generate_function_reference
    \/ generate_index

Spec == Init /\ [][Next]_vars

(***************************************************************************)
(* The pure text functions on their own: the input text is drawn from the  *)
(* concatenations of a few tokens, then the function is applied.           *)
(***************************************************************************)
RECURSIVE Texts(_, _)
Texts(tokens, n) ==
    IF n = 0 THEN {""}
    ELSE LET shorter == Texts(tokens, n - 1) IN
         shorter \cup {t \o k : t \in shorter, k \in tokens}

DocTokens == {"///", "//!", " ", "\n", "a"}

ParamTokens == {"mut ", "&", "x", ":", " ", ","}

InitText(texts, start) ==
    /\ tree = {}
    /\ pending = {}
    /\ readable = {}
    /\ structs = <<>>
    /\ functions = <<>>
    /\ warnings = <<>>
    /\ files = <<>>
    /\ pc = start
    /\ text \in texts
    /\ out1 = ""
    /\ out2 = ""

clean_once ==
    /\ pc = "clean"
    /\ out1' = clean_doc_comment(text)
    /\ pc' = "reclean"
    /\ UNCHANGED <<tree, pending, readable, structs, functions, warnings, files, text, out2>>

clean_twice ==
    /\ pc = "reclean"
    /\ out2' = clean_doc_comment(out1)
    /\ pc' = "cleaned"
    /\ UNCHANGED <<tree, pending, readable, structs, functions, warnings, files, text, out1>>

InitClean == InitText(Texts(DocTokens, MaxDocTokens), "clean")

NextClean == clean_once \/ clean_twice

SpecClean == InitClean /\ [][NextClean]_vars

\* _extract_functions on a file whose one match is `fn f(<text>);`
extract_functions_text ==
    /\ pc = "params"
    /\ functions' = functions \o
          extract_functions([structs |-> <<>>,
                             functions |-> <<[doc |-> "", visibility |-> <<>>, name |-> "f",
                                              params |-> text, return |-> <<>>]>>],
                            "a.rs")
    /\ pc' = "parsed"
    /\ UNCHANGED <<tree, pending, readable, structs, warnings, files, text, out1, out2>>

InitParams == InitText(Texts(ParamTokens, MaxParamTokens), "params")

NextParams == extract_functions_text

SpecParams == InitParams /\ [][NextParams]_vars

(***************************************************************************)
(* Reading a written artifact back                                         *)
(***************************************************************************)
ZeroCopyFile == "zero-copy-reference.md"
ApiFile == "api-structures.md"
FunctionFile == "function-reference.md"
IndexFile == "auto-generated-index.md"

Written(filename) == filename \in DOMAIN files

IsH2(piece) == StartsWith(piece, "## ")
IsH3(piece) == StartsWith(piece, "### ")

\* the first position after i that starts a heading or a section
RECURSIVE BlockEnd(_, _)
BlockEnd(content, i) ==
    IF i + 1 > Len(content) THEN Len(content) + 1
    ELSE IF IsH2(content[i + 1]) \/ IsH3(content[i + 1]) THEN i + 1
    ELSE BlockEnd(content, i + 1)

\* the sections ("### " blocks) from position i on, each with the "## "
\* heading it stands under
RECURSIVE SectionsFrom(_, _, _)
SectionsFrom(content, i, heading) ==
    IF i > Len(content) THEN <<>>
    ELSE IF IsH2(content[i]) THEN SectionsFrom(content, i + 1, content[i])
    ELSE IF IsH3(content[i])
         THEN <<[heading |-> heading, pieces |-> SubSeq(content, i, BlockEnd(content, i) - 1)]>>
              \o SectionsFrom(content, BlockEnd(content, i), heading)
    ELSE SectionsFrom(content, i + 1, heading)

Sections(content) == SectionsFrom(content, 1, "")

Pieces(sections) == [i \in 1..Len(sections) |-> sections[i].pieces]

\* of the parsed sections, those under heading
Under(sections, heading) ==
    LET IsUnder(s) == s.heading = heading IN Pieces(SelectSeq(sections, IsUnder))

Headings(content) == SelectSeq(content, IsH2)

Occurrences(content, piece) == Cardinality({i \in 1..Len(content) : content[i] = piece})

StructSections(ss) == [i \in 1..Len(ss) |-> generate_struct_section(ss[i])]

FunctionSections(fs) == [i \in 1..Len(fs) |-> generate_function_section(fs[i])]

\* how often x occurs in the sequence q
Count(q, x) == Cardinality({i \in 1..Len(q) : q[i] = x})

\* the categories as the specification words them
HasAttribute(struct, token) ==
    \E k \in 1..Len(struct.attributes) : Contains(struct.attributes[k], token)

SpecCategory(struct) ==
    IF HasAttribute(struct, "account") THEN "## Account Structures\n"
    ELSE IF Contains(Lower(struct.name), "config") THEN "## Configuration Structures\n"
    ELSE IF \E w \in {"data", "info", "cap", "snapshot"} : Contains(Lower(struct.name), w)
         THEN "## Data Structures\n"
    ELSE "## Other Structures\n"

CategoryHeadings ==
    {"## Account Structures\n", "## Configuration Structures\n",
     "## Data Structures\n", "## Other Structures\n"}

IsZeroCopyStruct(struct) == HasAttribute(struct, "account(zero_copy)")

InCategory(ss, heading) ==
    LET Falls(s) == SpecCategory(s) = heading IN SelectSeq(ss, Falls)

PublicIn(fs, path) ==
    LET Shown(f) == f.is_public /\ f.file_path = path IN SelectSeq(fs, Shown)

NumPublic == Cardinality({k \in 1..Len(functions) : functions[k].is_public})

NumZeroCopy == Cardinality({k \in 1..Len(structs) : IsZeroCopyStruct(structs[k])})

\* C1: in api-structures.md every section stands under one of the four
\* category headings, the sections number as many as the extracted structs,
\* and every struct record has its section there exactly once (records that
\* render alike, as many times as there are such records).
C1_CategoryTotalExclusive ==
    pc = "done" =>
        LET sections == Sections(files[ApiFile])
            expected == StructSections(structs)
        IN  /\ Len(sections) = Len(structs)
            /\ \A i \in 1..Len(sections) : sections[i].heading \in CategoryHeadings
            /\ \A k \in 1..Len(structs) :
                  Count(Pieces(sections), expected[k]) = Count(expected, expected[k])

\* two records of the same name, from different files, in different categories
C1_Witness ==
    /\ pc = "done"
    /\ Len(structs) = 2
    /\ structs[1].name = structs[2].name
    /\ structs[1].file_path # structs[2].file_path
    /\ SpecCategory(structs[1]) # SpecCategory(structs[2])

\* C2: a struct carrying account(zero_copy) has its section in the zero-copy
\* reference and, in the structures reference, under "Account Structures"
\* and under no other heading, whatever its name.
C2_ZeroCopyIsAccount ==
    pc = "done" =>
        \A k \in 1..Len(structs) :
            IsZeroCopyStruct(structs[k]) =>
                LET section == generate_struct_section(structs[k])
                    api == Sections(files[ApiFile])
                IN  /\ Written(ZeroCopyFile)
                    /\ Count(Pieces(Sections(files[ZeroCopyFile])), section) >= 1
                    /\ Count(Under(api, "## Account Structures\n"), section) >= 1
                    /\ \A i \in 1..Len(api) :
                          api[i].pieces = section => api[i].heading = "## Account Structures\n"

C2_Witness ==
    /\ pc = "done"
    /\ \E k \in 1..Len(structs) :
          /\ IsZeroCopyStruct(structs[k])
          /\ Contains(Lower(structs[k].name), "config")
          /\ Contains(Lower(structs[k].name), "data")

\* the "## " headings of content are those of `order` that some struct falls
\* under, each once, in the order of `order`; under each stand the sections
\* of its structs, in extraction order
CategoriesRendered(content, order) ==
    LET NonEmpty(h) == InCategory(structs, h) # <<>>
        sections == Sections(content)
    IN  /\ Headings(content) = SelectSeq(order, NonEmpty)
        /\ \A h \in CategoryHeadings :
              Under(sections, h) = StructSections(InCategory(structs, h))

\* C3 as claimed: one heading per non-empty category, in the order Account,
\* Configuration, Data, Other, the structs of a category in extraction order.
C3_HeadingsInClassificationOrder ==
    pc = "done" =>
        CategoriesRendered(files[ApiFile],
                           <<"## Account Structures\n", "## Configuration Structures\n",
                             "## Data Structures\n", "## Other Structures\n">>)

\* C3 amended: one heading per non-empty category and none for an empty one,
\* in the order Account, Data, Configuration, Other, the structs of a
\* category in extraction order.
C3_HeadingsInDictOrder ==
    pc = "done" =>
        CategoriesRendered(files[ApiFile],
                           <<"## Account Structures\n", "## Data Structures\n",
                             "## Configuration Structures\n", "## Other Structures\n">>)

\* a Configuration struct extracted before a Data struct
C3_Witness ==
    /\ pc = "done"
    /\ Len(structs) = 2
    /\ SpecCategory(structs[1]) = "## Configuration Structures\n"
    /\ SpecCategory(structs[2]) = "## Data Structures\n"

\* C4: the index prints the number of public functions, the number the
\* function reference prints, and the number of zero-copy sections.
C4_IndexCountsPublicFunctions ==
    pc = "done" =>
        /\ Occurrences(files[IndexFile],
                       "- **Functions documented**: " \o ToString(NumPublic) \o "\n") = 1
        /\ Occurrences(files[FunctionFile],
                       "Total public functions: **" \o ToString(NumPublic) \o "**\n") = 1
        /\ Occurrences(files[IndexFile],
                       "- **Zero-copy structures**: " \o ToString(NumZeroCopy) \o "\n") = 1
        /\ (Written(ZeroCopyFile) => Len(Sections(files[ZeroCopyFile])) = NumZeroCopy)

\* no line of t, trimmed, starts with a doc-comment leader
NoLeader(t) ==
    \A line \in {Split(t, "\n")[k] : k \in 1..Len(Split(t, "\n"))} :
        ~StartsWith(Strip(line), "///") /\ ~StartsWith(Strip(line), "//!")

\* C5 as claimed: cleaning is idempotent, clean(clean(t)) = clean(t).
C5_CleanIdempotent == pc = "cleaned" => out2 = out1

\* C5 amended: a text none of whose trimmed lines starts with a leader is
\* cleaned to the empty string, and cleaning a cleaned text gives it back
\* exactly when it is empty.
C5_CleanDropsUnmarkedLines ==
    /\ (pc \in {"reclean", "cleaned"} /\ NoLeader(text) => out1 = "")
    /\ (pc = "cleaned" /\ NoLeader(out1) => out2 = "")
    /\ (pc = "cleaned" => (out2 = out1 <=> out1 = ""))

C5_Witness ==
    /\ pc = "cleaned"
    /\ out1 # ""
    /\ NoLeader(out1)
    /\ out2 = ""

\* C6: the function reference holds one section for every public function
\* and none for a private one; the sections and the printed total both
\* number the public records.
C6_OnlyPublicFunctions ==
    pc = "done" =>
        LET content == files[FunctionFile]
            sections == Pieces(Sections(content))
            expected == FunctionSections(functions)
        IN  /\ Len(sections) = NumPublic
            /\ \A k \in 1..Len(functions) :
                  Count(sections, expected[k])
                      = Cardinality({j \in 1..Len(functions) :
                                        functions[j].is_public /\ expected[j] = expected[k]})
            /\ Occurrences(content, "Total public functions: **" \o ToString(NumPublic) \o "**\n") = 1

C6_Witness ==
    /\ pc = "done"
    /\ NumPublic = 1
    /\ Len(functions) = 2

\* C7: one heading per distinct path of a public function, the headings in
\* lexicographic order whatever the traversal order, and under each heading
\* the public functions of that path, in extraction order.
C7_GroupedBySortedPath ==
    pc = "done" =>
        LET content == files[FunctionFile]
            heads == Headings(content)
            sections == Sections(content)
            paths == {functions[k].file_path : k \in {j \in 1..Len(functions) : functions[j].is_public}}
        IN  /\ {heads[k] : k \in 1..Len(heads)} = {"## " \o p \o "\n" : p \in paths}
            /\ Len(heads) = Cardinality(paths)
            /\ \A i, j \in 1..Len(heads) : i < j => StrLess(heads[i], heads[j])
            /\ \A i, j \in 1..Len(heads) :
                  ~(i < j /\ heads[i] = "## b.rs\n" /\ heads[j] = "## a.rs\n")
            /\ \A p \in Files :
                  Under(sections, "## " \o p \o "\n") = FunctionSections(PublicIn(functions, p))

\* b.rs was traversed before a.rs, both hold a public function
C7_Witness ==
    /\ pc = "done"
    /\ Len(functions) = 2
    /\ functions[1].is_public /\ functions[2].is_public
    /\ functions[1].file_path = "b.rs" /\ functions[2].file_path = "a.rs"

\* C8: zero-copy-reference.md exists exactly when some struct carries the
\* zero-copy marker; it then holds one section per such struct, in
\* extraction order, and no other; the three other artifacts are written
\* either way.
C8_ZeroCopyFileIffQualifying ==
    /\ Written(ZeroCopyFile) => NumZeroCopy > 0
    /\ pc # "extract" => (Written(ZeroCopyFile) <=> NumZeroCopy > 0)
    /\ pc = "done" /\ Written(ZeroCopyFile) =>
          Pieces(Sections(files[ZeroCopyFile]))
              = StructSections(SelectSeq(structs, IsZeroCopyStruct))
    /\ pc = "done" => Written(ApiFile) /\ Written(FunctionFile) /\ Written(IndexFile)

C8_Witness ==
    /\ pc = "done"
    /\ ~Written(ZeroCopyFile)
    /\ Len(structs) = 2
    /\ Written(ApiFile) /\ Written(FunctionFile) /\ Written(IndexFile)

\* C9: a file whose read fails adds no record, gets exactly one warning and
\* leaves the collections as they were; the files after it are still
\* traversed, and generation starts only once every file has been.
C9_State ==
    /\ {warnings[k] : k \in 1..Len(warnings)} = (tree \ pending) \ readable
    /\ Len(warnings) = Cardinality((tree \ pending) \ readable)
    /\ \A k \in 1..Len(structs) : structs[k].file_path \in readable
    /\ \A k \in 1..Len(functions) : functions[k].file_path \in readable
    /\ pc \in {"extract", "api_structures", "function_reference", "index", "done"}
    /\ pc # "extract" => pending = {}

C9_Step ==
    /\ warnings' # warnings =>
          /\ structs' = structs
          /\ functions' = functions
          /\ Len(warnings') = Len(warnings) + 1
          /\ pc' = pc
    /\ Len(structs) <= Len(structs') /\ SubSeq(structs', 1, Len(structs)) = structs
    /\ Len(functions) <= Len(functions') /\ SubSeq(functions', 1, Len(functions)) = functions

C9_ReadFailureSkipsFile == []C9_State /\ [][C9_Step]_vars

\* one file could not be read, the other was extracted, and the run ended
C9_Witness ==
    /\ pc = "done"
    /\ Len(warnings) = 1
    /\ Len(structs) >= 1
    /\ Len(functions) >= 1

\* C10: every record has a non-empty name, and no field or parameter entry
\* has an empty name.
C10_NoEmptyNames ==
    /\ \A k \in 1..Len(structs) :
          /\ structs[k].name # ""
          /\ \A j \in 1..Len(structs[k].fields) : structs[k].fields[j][1] # ""
    /\ \A k \in 1..Len(functions) :
          /\ functions[k].name # ""
          /\ \A j \in 1..Len(functions[k].parameters) : functions[k].parameters[j][1] # ""

====
